---- MODULE Spec2Model ----
(***************************************************************************)
(* Model of nanoKontroller.py: the config compiler (parse_config), the     *)
(* resource resolver (get_audio_devices, get_sink_inputs), the action      *)
(* variants and the MIDI dispatch loop with its rebuild-on-failure policy. *)
(*                                                                         *)
(* Python strings that the program splits, matches by suffix or formats    *)
(* are sequences of tokens; "/" is a token of its own, so that             *)
(* str.split('/', 1) and str.endswith are computed, not assumed.           *)
(***************************************************************************)
EXTENDS Integers, Sequences, FiniteSets, TLC

VARIABLES pc, exc, cfg, mixer, action_map, msg, effects, failures, rebuilds, muteHist,
          child, call, build

vars == <<pc, exc, cfg, mixer, action_map, msg, effects, failures, rebuilds, muteHist,
          child, call, build>>

(***************************************************************************)
(* Bounds of the model.                                                    *)
(***************************************************************************)
\* largest index the mixer hands out to a device or stream
MaxIndex == 3
\* history counters (failures, rebuilds) saturate here
MaxCount == 2
\* longest keymap section drawn for the config compiler
MaxKeymap == 2

(***************************************************************************)
(* class nano_keys(Enum): the controls and the embedded led_support list.  *)
(***************************************************************************)
nano_keys ==
  [TRACK_PREV |-> 58, TRACK_NEXT |-> 59, CYCLE |-> 46, MARKER_SET |-> 60,
   MARKER_PREV |-> 61, MARKER_NEXT |-> 62, PREV |-> 43, NEXT |-> 44,
   STOP |-> 42, PLAY |-> 41, RECORD |-> 45,
   PARAM1_SOLO |-> 32, PARAM2_SOLO |-> 33, PARAM3_SOLO |-> 34, PARAM4_SOLO |-> 35,
   PARAM5_SOLO |-> 36, PARAM6_SOLO |-> 37, PARAM7_SOLO |-> 38, PARAM8_SOLO |-> 39,
   PARAM1_MUTE |-> 48, PARAM2_MUTE |-> 49, PARAM3_MUTE |-> 50, PARAM4_MUTE |-> 51,
   PARAM5_MUTE |-> 52, PARAM6_MUTE |-> 53, PARAM7_MUTE |-> 54, PARAM8_MUTE |-> 55,
   PARAM1_RECORD |-> 64, PARAM2_RECORD |-> 65, PARAM3_RECORD |-> 66, PARAM4_RECORD |-> 67,
   PARAM5_RECORD |-> 68, PARAM6_RECORD |-> 69, PARAM7_RECORD |-> 70, PARAM8_RECORD |-> 71,
   PARAM1_SLIDER |-> 0, PARAM2_SLIDER |-> 1, PARAM3_SLIDER |-> 2, PARAM4_SLIDER |-> 3,
   PARAM5_SLIDER |-> 4, PARAM6_SLIDER |-> 5, PARAM7_SLIDER |-> 6, PARAM8_SLIDER |-> 7,
   PARAM1_KNOB |-> 16, PARAM2_KNOB |-> 17, PARAM3_KNOB |-> 18, PARAM4_KNOB |-> 19,
   PARAM5_KNOB |-> 20, PARAM6_KNOB |-> 21, PARAM7_KNOB |-> 22, PARAM8_KNOB |-> 23]

\* nano_keys.led_support.value: a member of the Enum whose value is a list
led_support ==
  <<58, 59, 46, 60, 61, 62, 43, 44, 42, 41, 45,
    32, 33, 34, 35, 36, 37, 38, 39,
    48, 49, 50, 51, 52, 53, 54, 55,
    64, 65, 66, 67, 68, 69, 70, 71>>

\* the ids of the controls of the enumeration
ControlIds == {nano_keys[n] : n \in DOMAIN nano_keys}

\* evdev.ecodes.ecodes, the part of the table the configurations use
ecodes == (<<"KEY_A">> :> 30) @@ (<<"KEY_MUTE">> :> 113) @@ (<<"KEY_PLAYPAUSE">> :> 164)

\* float(): the numerals the configurations use; any other text is a ValueError
FloatLit == (<<"50">> :> 50) @@ (<<"100">> :> 100) @@ (<<"150">> :> 150)

(***************************************************************************)
(* Python values.                                                          *)
(***************************************************************************)
None == [tag |-> "None"]

Dict(d) == [tag |-> "dict", d |-> d]

Raise(e) == [tag |-> "raise", exc |-> e]

EmptyMap == [k \in {} |-> None]

\* d[k] = v on a dict held as a function
DictSet(d, k, v) == [x \in (DOMAIN d) \cup {k} |-> IF x = k THEN v ELSE d[x]]

\* the index of the first "/" of s, 0 when there is none
RECURSIVE FirstSlash(_, _)
FirstSlash(s, i) ==
  IF i > Len(s) THEN 0
  ELSE IF s[i] = "/" THEN i
  ELSE FirstSlash(s, i + 1)

\* s.split('/', 1)
Split1(s) ==
  LET i == FirstSlash(s, 1)
  IN IF i = 0 THEN <<s>>
     ELSE <<SubSeq(s, 1, i - 1), SubSeq(s, i + 1, Len(s))>>

\* name.endswith(suffix)
EndsWith(name, suffix) ==
  /\ Len(suffix) <= Len(name)
  /\ SubSeq(name, Len(name) - Len(suffix) + 1, Len(name)) = suffix

(***************************************************************************)
(* The configuration file: readable or not, and its sections, each a       *)
(* sequence of <<option, value>> pairs in file order.                      *)
(***************************************************************************)
HasSection(c, s) == s \in DOMAIN c.sections

\* config_object.options(s) with config_object.get(s, option)
Options(c, s) == c.sections[s]

\* the loops of parse_config that invert a section: d[value] = alias
RECURSIVE InvertSection(_, _)
InvertSection(opts, d) ==
  IF opts = <<>> THEN d
  ELSE InvertSection(Tail(opts), DictSet(d, Head(opts)[2], Head(opts)[1]))

AliasMap(c, s) ==
  IF HasSection(c, s) THEN InvertSection(Options(c, s), EmptyMap) ELSE EmptyMap

(***************************************************************************)
(* The mixer: what pactl.sink_list(), source_list() and sink_input_list()  *)
(* return, in index order.  A device is [index, name, mute], a stream is   *)
(* [index, name]; next is the index the mixer gives to the next object.    *)
(* The objects the program holds are the records it was given (snapshots). *)
(***************************************************************************)
Indexes(objs) == {objs[i].index : i \in DOMAIN objs}

\* get_audio_devices: one loop over a device list
RECURSIVE FindDevices(_, _, _)
FindDevices(devs, names, audio_devices) ==
  IF devs = <<>> THEN audio_devices
  ELSE LET dev == Head(devs)
       IN FindDevices(Tail(devs), names,
                      IF dev.name \in DOMAIN names
                      THEN DictSet(audio_devices, names[dev.name], dev)
                      ELSE audio_devices)

get_audio_devices(pactl, sources, sinks) ==
  FindDevices(pactl.sources, sources, FindDevices(pactl.sinks, sinks, EmptyMap))

\* get_sink_inputs: the inner loop over the configured suffixes, for one stream
RECURSIVE MatchSuffixes(_, _, _, _)
MatchSuffixes(item, suffixes, streams, sink_inputs) ==
  IF suffixes = {} THEN sink_inputs
  ELSE LET stream == CHOOSE x \in suffixes : TRUE
       IN MatchSuffixes(item, suffixes \ {stream}, streams,
                        IF EndsWith(item.name, stream)
                        THEN DictSet(sink_inputs, streams[stream], item)
                        ELSE sink_inputs)

\* get_sink_inputs: the outer loop over pactl.sink_input_list()
RECURSIVE FindStreams(_, _, _)
FindStreams(items, streams, sink_inputs) ==
  IF items = <<>> THEN sink_inputs
  ELSE FindStreams(Tail(items), streams,
                   MatchSuffixes(Head(items), DOMAIN streams, streams, sink_inputs))

\* get_sink_inputs handing out again the handles the table already holds
get_sink_inputs_Cached(pactl, streams) ==
  LET fresh == FindStreams(pactl.sink_inputs, streams, EmptyMap)
      held  == IF action_map.tag = "dict"
               THEN {action_map.d[k].stream :
                       k \in {x \in DOMAIN action_map.d : action_map.d[x].kind = "volume_stream"}}
               ELSE {}
  IN IF held = {} THEN fresh ELSE [alias \in DOMAIN fresh |-> CHOOSE h \in held : TRUE]

get_sink_inputs(pactl, streams) == FindStreams(pactl.sink_inputs, streams, EmptyMap)

(***************************************************************************)
(* The action objects, as records of their fields.                         *)
(***************************************************************************)
nano_action_evdev(evdev_action) == [kind |-> "evdev", evdev_action |-> evdev_action]

nano_action_mute(audio_device) ==
  [kind |-> "mute", audio_device |-> audio_device, muted |-> audio_device.mute]

nano_action_volume(audio_device, max_level) ==
  [kind |-> "volume", audio_device |-> audio_device, max_level |-> max_level]

nano_action_volume_stream(stream, max_level) ==
  [kind |-> "volume_stream", stream |-> stream, max_level |-> max_level]

nano_action_exec(command) == [kind |-> "exec", command |-> command]

(***************************************************************************)
(* parse_config.                                                           *)
(***************************************************************************)
\* ReadConfig without the check of the keymap section
ReadConfig_NoKeymapCheck(c) ==
  IF ~c.readable THEN "unreadable" ELSE "ok"

\* the two fatal checks: config_object.read(), then the keymap section
ReadConfig(c) ==
  IF ~c.readable THEN "unreadable"
  ELSE IF ~HasSection(c, "keymap") THEN "nokeymap"
  ELSE "ok"

\* KeyCode falling back to a default id instead of skipping an unknown name
KeyCode_DefaultKey(keyname) ==
  IF keyname \in DOMAIN nano_keys THEN [ok |-> TRUE, int |-> TRUE, v |-> nano_keys[keyname]]
  ELSE IF keyname = "led_support" THEN [ok |-> TRUE, int |-> FALSE, v |-> led_support]
  ELSE [ok |-> TRUE, int |-> TRUE, v |-> 128]

\* try: keycode = nano_keys[keyname].value / except: continue
KeyCode(keyname) ==
  IF keyname \in DOMAIN nano_keys THEN [ok |-> TRUE, int |-> TRUE, v |-> nano_keys[keyname]]
  ELSE IF keyname = "led_support" THEN [ok |-> TRUE, int |-> FALSE, v |-> led_support]
  ELSE [ok |-> FALSE]

\* action_map[keycode] = action: a list is not hashable
Store(keycode, action) ==
  IF keycode.int THEN [r |-> "set", k |-> keycode.v, a |-> action]
  ELSE [r |-> "raise", exc |-> "TypeError"]

\* float(text)
ParseFloat(text) == IF text \in DOMAIN FloatLit THEN [ok |-> TRUE, v |-> FloatLit[text]] ELSE [ok |-> FALSE]

\* the body of the keymap loop for one option: what it does to action_map
BuildEntry(keyname, value, audio_devices, sink_input_devices) ==
  LET keycode == KeyCode(keyname)
      actions == Split1(value)
      Skip    == [r |-> "skip"]
  IN IF ~keycode.ok THEN Skip
     ELSE IF Len(actions) = 1
     THEN IF actions[1] \in DOMAIN ecodes
          THEN Store(keycode, nano_action_evdev(ecodes[actions[1]]))
          ELSE Skip
     ELSE IF actions[1] = <<"mute">>
     THEN IF actions[2] \in DOMAIN audio_devices
          THEN Store(keycode, nano_action_mute(audio_devices[actions[2]]))
          ELSE [r |-> "raise", exc |-> "KeyError"]
     ELSE IF actions[1] = <<"volume">>
     THEN LET volume_details == Split1(actions[2])
          IN IF volume_details[1] \notin DOMAIN audio_devices
             THEN [r |-> "raise", exc |-> "KeyError"]
             ELSE IF Len(volume_details) = 1
             THEN Store(keycode, nano_action_volume(audio_devices[volume_details[1]], 100))
             ELSE IF ParseFloat(volume_details[2]).ok
             THEN Store(keycode, nano_action_volume(audio_devices[volume_details[1]],
                                                    ParseFloat(volume_details[2]).v))
             ELSE [r |-> "raise", exc |-> "ValueError"]
     ELSE IF actions[1] = <<"volumestr">>
     THEN LET volume_details == Split1(actions[2])
          IN IF Len(volume_details) = 1
                /\ actions[2] \in DOMAIN sink_input_devices
                /\ keycode.int
             THEN Store(keycode, nano_action_volume_stream(sink_input_devices[actions[2]], 100))
             ELSE Skip
     ELSE IF actions[1] = <<"exec">>
     THEN Store(keycode, nano_action_exec(actions[2]))
     ELSE Skip

\* for keyname in config_object.options('keymap'): ...
RECURSIVE BuildKeymap(_, _, _, _)
BuildKeymap(opts, audio_devices, sink_input_devices, map) ==
  IF opts = <<>> THEN Dict(map)
  ELSE LET e == BuildEntry(Head(opts)[1], Head(opts)[2], audio_devices, sink_input_devices)
       IN IF e.r = "raise" THEN Raise(e.exc)
          ELSE BuildKeymap(Tail(opts), audio_devices, sink_input_devices,
                           IF e.r = "set" THEN DictSet(map, e.k, e.a) ELSE map)

\* the keymap the loop iterates over
Keymap(c) == IF HasSection(c, "keymap") THEN Options(c, "keymap") ELSE <<>>

parse_config(c, pactl) ==
  IF ReadConfig(c) # "ok" THEN None
  ELSE LET sources == AliasMap(c, "audioinputs")
           streams == AliasMap(c, "streams")
           sinks   == AliasMap(c, "audiooutputs")
           audio_devices      == get_audio_devices(pactl, sources, sinks)
           sink_input_devices == get_sink_inputs(pactl, streams)
       IN BuildKeymap(Keymap(c), audio_devices, sink_input_devices, EmptyMap)

(***************************************************************************)
(* The mixer client at run time: a write through a held object succeeds    *)
(* when an object of that type with that index is still in the inventory.  *)
(***************************************************************************)
ListOf(pactl, type) ==
  IF type = "sink" THEN pactl.sinks
  ELSE IF type = "source" THEN pactl.sources
  ELSE pactl.sink_inputs

Live(pactl, obj) == obj.index \in Indexes(ListOf(pactl, obj.type))

\* pactl.mute(audio_device, muted) when the device is live
MixerMute(pactl, obj, muted) ==
  LET upd(objs) == [i \in DOMAIN objs |->
                      IF objs[i].index = obj.index THEN [objs[i] EXCEPT !.mute = muted]
                      ELSE objs[i]]
  IN IF obj.type = "sink" THEN [pactl EXCEPT !.sinks = upd(pactl.sinks)]
     ELSE [pactl EXCEPT !.sources = upd(pactl.sources)]

(***************************************************************************)
(* nano_led_handler.set_led: the messages it sends on the MIDI out port.   *)
(***************************************************************************)
InList(x, list) == \E i \in DOMAIN list : list[i] = x

\* set_led passing the value on as it came
set_led_Raw(led, value) ==
  IF InList(led, led_support)
  THEN <<[op |-> "led", control |-> led, value |-> value]>>
  ELSE <<>>

set_led(led, value) ==
  IF InList(led, led_support)
  THEN <<[op |-> "led", control |-> led, value |-> IF value > 0 THEN 127 ELSE 0]>>
  ELSE <<>>

(***************************************************************************)
(* The action() methods.  Each gives the outcome of one invocation:        *)
(* ok (FALSE when it raises), the action object afterwards, the mixer      *)
(* afterwards, and the effects on the collaborators, in order.             *)
(***************************************************************************)
Outcome(ok, a, pactl, eff) == [ok |-> ok, a |-> a, mixer |-> pactl, effects |-> eff]

\* the key pressed on the full value only
KeyState_FullOnly(value) == IF value = 127 THEN 1 ELSE 0

\* int(value/126)
KeyState(value) == value \div 126

\* nano_action_evdev.action; fault: uinput.write raises
evdev_action(a, key, value, pactl, fault) ==
  IF fault THEN Outcome(FALSE, a, pactl, <<>>)
  ELSE Outcome(TRUE, a, pactl,
               <<[op |-> "key", code |-> a.evdev_action, state |-> KeyState(value)]>>
               \o set_led(key, value)
               \o <<[op |-> "syn"]>>)

\* FullPress reacting to every press, not only to the full press
FullPress_AnyPress(value) == value > 0

\* if value == 127
FullPress(value) == value = 127

\* if self.muted == 0: self.muted = 1 / else: self.muted = 0
Toggle(muted) == IF muted = 0 THEN 1 ELSE 0

\* nano_action_mute.action; fault: pactl.mute raises though the device is there
mute_action(a, key, value, pactl, fault) ==
  IF FullPress(value)
  THEN LET b == [a EXCEPT !.muted = Toggle(a.muted)]
       IN IF Live(pactl, a.audio_device) /\ ~fault
          THEN Outcome(TRUE, b, MixerMute(pactl, a.audio_device, b.muted),
                       set_led(key, b.muted)
                       \o <<[op |-> "mute", type |-> a.audio_device.type,
                             index |-> a.audio_device.index, mute |-> b.muted]>>)
          ELSE Outcome(FALSE, b, pactl, set_led(key, b.muted))
  ELSE Outcome(TRUE, a, pactl, <<>>)

\* the volume set from the value alone, max_level left out
VolumeSet_NoMaxLevel(obj, m, max_level) ==
  [op |-> "volume", type |-> obj.type, index |-> obj.index,
   num |-> m.value * 100, den |-> 127 * 100]

\* pactl.volume_set_all_chans(obj, (msg.value / 127.0) * (max_level / 100.0)):
\* the volume is the fraction num / den
VolumeSet(obj, m, max_level) ==
  [op |-> "volume", type |-> obj.type, index |-> obj.index,
   num |-> m.value * max_level, den |-> 127 * 100]

\* nano_action_volume.action (it reads the module-level msg, not value;
\* NameError when no message has been bound to msg yet)
volume_action(a, key, value, pactl, m) ==
  IF m.type = "none" THEN Outcome(FALSE, a, pactl, <<>>)
  ELSE IF Live(pactl, a.audio_device)
  THEN Outcome(TRUE, a, pactl, <<VolumeSet(a.audio_device, m, a.max_level)>>)
  ELSE Outcome(FALSE, a, pactl, <<>>)

\* nano_action_volume_stream.action
volume_stream_action(a, key, value, pactl, m) ==
  IF m.type = "none" THEN Outcome(FALSE, a, pactl, <<>>)
  ELSE IF Live(pactl, a.stream)
  THEN Outcome(TRUE, a, pactl, <<VolumeSet(a.stream, m, a.max_level)>>)
  ELSE Outcome(FALSE, a, pactl, <<>>)

\* a format that fills in the control id only
FormatToken_IdOnly(t, key, value) ==
  IF t = "{NK_KEY_ID}" THEN ToString(key)
  ELSE IF t = "{{" THEN "{"
  ELSE IF t = "}}" THEN "}"
  ELSE t

\* str.format(NK_KEY_ID = key, NK_KEY_VALUE = value) on the tokens of a template
FormatToken(t, key, value) ==
  IF t = "{NK_KEY_ID}" THEN ToString(key)
  ELSE IF t = "{NK_KEY_VALUE}" THEN ToString(value)
  ELSE IF t = "{{" THEN "{"
  ELSE IF t = "}}" THEN "}"
  ELSE t

\* replacement fields that str.format cannot fill (KeyError)
UnknownFields == {"{FOO}"}

\* nano_action_exec.action
exec_action(a, key, value, pactl) ==
  IF \E i \in DOMAIN a.command : a.command[i] \in UnknownFields
  THEN Outcome(FALSE, a, pactl, <<>>)
  ELSE Outcome(TRUE, a, pactl,
               <<[op |-> "shell",
                  command |-> [i \in DOMAIN a.command |-> FormatToken(a.command[i], key, value)]]>>)

\* action_map[msg.control].action(key=msg.control, value=msg.value)
Invoke(a, key, value, pactl, m, fault) ==
  IF a.kind = "evdev" THEN evdev_action(a, key, value, pactl, fault)
  ELSE IF a.kind = "mute" THEN mute_action(a, key, value, pactl, fault)
  ELSE IF a.kind = "volume" THEN volume_action(a, key, value, pactl, m)
  ELSE IF a.kind = "volume_stream" THEN volume_stream_action(a, key, value, pactl, m)
  ELSE exec_action(a, key, value, pactl)

(***************************************************************************)
(* Configurations and inventories the model starts from.                   *)
(***************************************************************************)
SinkName == <<"alsa_out">>

SourceName == <<"alsa_in">>

YouTube == <<"-", "YouTube">>

\* display names of application streams
StreamNames == {<<"Song">> \o YouTube}

\* [audiooutputs] spk = alsa_out, [audioinputs] mic = alsa_in, [streams] yt = - YouTube
AliasSections ==
  ("audiooutputs" :> << <<<<"spk">>, SinkName>> >>)
  @@ ("audioinputs" :> << <<<<"mic">>, SourceName>> >>)
  @@ ("streams" :> << <<<<"yt">>, YouTube>> >>)

EchoTemplate == <<"echo ", "{NK_KEY_ID}", "-", "{NK_KEY_VALUE}">>

\* echo {{{NK_KEY_ID}}}
BraceTemplate == <<"echo ", "{{", "{NK_KEY_ID}", "}}">>

\* echo {FOO}
FooTemplate == <<"echo ", "{FOO}">>

\* keymap options <<control name, action descriptor>>
EntryPool ==
  { <<"PLAY", <<"KEY_PLAYPAUSE">>>>,
    <<"STOP", <<"KEY_NOPE">>>>,
    <<"BOGUS", <<"KEY_A">>>>,
    <<"led_support", <<"KEY_A">>>>,
    <<"PARAM1_MUTE", <<"mute", "/", "spk">>>>,
    <<"PARAM2_MUTE", <<"mute", "/", "mic">>>>,
    <<"PARAM1_SLIDER", <<"volume", "/", "spk">>>>,
    <<"PARAM2_SLIDER", <<"volume", "/", "mic", "/", "50">>>>,
    <<"PARAM3_SLIDER", <<"volumestr", "/", "yt">>>>,
    <<"PARAM4_SLIDER", <<"volumestr", "/", "yt", "/", "50">>>>,
    <<"PARAM5_SLIDER", <<"volume", "/", "spk", "/", "loud">>>>,
    <<"RECORD", <<"exec", "/">> \o EchoTemplate>>,
    <<"CYCLE", <<"frob", "/", "x">>>> }

\* the keymap sections of at most n options, option names distinct
RECURSIVE Keymaps(_)
Keymaps(n) ==
  IF n = 0 THEN {<<>>}
  ELSE LET shorter == Keymaps(n - 1)
       IN shorter \cup
          {Append(k, e) : <<k, e>> \in
             {p \in shorter \X EntryPool : \A i \in DOMAIN p[1] : p[1][i][1] # p[2][1]}}

Config(readable, keymap) ==
  [readable |-> readable, sections |-> AliasSections @@ ("keymap" :> keymap)]

ConfigNoKeymap(readable) == [readable |-> readable, sections |-> AliasSections]

\* the configuration of the running daemon in the dispatch-loop specification
MainKeymap ==
  << <<"PLAY", <<"KEY_PLAYPAUSE">>>>,
     <<"PARAM1_MUTE", <<"mute", "/", "spk">>>>,
     <<"PARAM3_SLIDER", <<"volumestr", "/", "yt">>>>,
     <<"RECORD", <<"exec", "/">> \o EchoTemplate>>,
     <<"BOGUS", <<"KEY_A">>>> >>

StreamKeymap == << <<"PARAM3_SLIDER", <<"volumestr", "/", "yt">>>> >>

Sink(i, m) == [type |-> "sink", index |-> i, name |-> SinkName, mute |-> m]

Source(i, m) == [type |-> "source", index |-> i, name |-> SourceName, mute |-> m]

Stream(i, n) == [type |-> "sink_input", index |-> i, name |-> n]

\* inventories at program start: the sink, the source and one stream, each present or not
Inventories ==
  { [sinks |-> sk, sources |-> sr, sink_inputs |-> si, next |-> 3] :
      sk \in {<<>>, <<Sink(0, 0)>>, <<Sink(0, 1)>>},
      sr \in {<<>>, <<Source(1, 0)>>},
      si \in {<<>>, <<Stream(2, <<"Song">> \o YouTube)>>} }

(***************************************************************************)
(* MIDI messages.                                                          *)
(***************************************************************************)
Values == {0, 126, 127}

\* a control with no name in any keymap of the model
UnmappedControl == nano_keys["PARAM8_KNOB"]

NoMsg == [type |-> "none", control |-> 0, value |-> 0]

MappedControls(c) ==
  {KeyCode(Keymap(c)[i][1]).v : i \in {j \in DOMAIN Keymap(c) :
      KeyCode(Keymap(c)[j][1]).ok /\ KeyCode(Keymap(c)[j][1]).int}}

Msgs(c) ==
  {[type |-> "control_change", control |-> k, value |-> v] :
      k \in MappedControls(c) \cup {UnmappedControl}, v \in Values}
  \cup {[type |-> "note_on", control |-> 0, value |-> 0]}

(***************************************************************************)
(* The program: startup, then the main loop.                               *)
(*   pc = "start"    before the initial parse_config                       *)
(*   pc = "sink_list", "source_list", "sink_input_list"                    *)
(*                   in parse_config, before that request to the mixer     *)
(*   pc = "read"     blocked in `for msg in inport`                        *)
(*   pc = "lookup"   a message was read, the body of the loop runs next    *)
(*   pc = "wait"     inside subprocess.call, until the command ends        *)
(*   pc = "rebuild"  in the except clause, before parse_config             *)
(*   pc = "crashed"  an exception left the program                         *)
(***************************************************************************)
Unbound == [tag |-> "unbound"]

\* no direct invocation is in progress: the main loop is the caller
NoCall == [fn |-> "none", key |-> 0, value |-> 0]

\* exit statuses of a shell command
ExitStatuses == {0, 1}

\* the locals of parse_config while it runs: the configuration as read and
\* the lists the mixer has returned so far; NoBuild outside parse_config
NoBuild == [cfg |-> None, sinks |-> <<>>, sources |-> <<>>]

Inc(n) == IF n < MaxCount THEN n + 1 ELSE n

\* history of the mute actions of a table: the state each was built with,
\* and whether it has been given an odd number of full presses since
MuteHistOf(r) ==
  IF r.tag # "dict" THEN EmptyMap
  ELSE [k \in {x \in DOMAIN r.d : r.d[x].kind = "mute"} |->
          [orig |-> r.d[k].muted, odd |-> FALSE]]

InitCommon ==
  /\ pc = "start"
  /\ exc = ""
  /\ action_map = Unbound
  /\ msg = NoMsg
  /\ effects = <<>>
  /\ failures = 0
  /\ rebuilds = 0
  /\ muteHist = EmptyMap
  /\ child = "idle"
  /\ build = NoBuild

Init ==
  /\ call = NoCall
  /\ InitCommon
  /\ cfg \in {Config(TRUE, MainKeymap), Config(FALSE, MainKeymap), ConfigNoKeymap(TRUE)}
  /\ mixer \in Inventories

\* parse_config up to its first request to the mixer: the file is read;
\* None is returned at once when it is unreadable or has no keymap
ReadFile ==
  IF ReadConfig(cfg) # "ok"
  THEN /\ pc' = "read"
       /\ action_map' = None
       /\ muteHist' = MuteHistOf(None)
       /\ UNCHANGED build
  ELSE /\ pc' = "sink_list"
       /\ build' = [cfg |-> cfg, sinks |-> <<>>, sources |-> <<>>]
       /\ UNCHANGED <<action_map, muteHist>>

\* action_map = parse_config(args.config, pactl, e, ui, outport)
Startup ==
  /\ pc = "start"
  /\ ReadFile
  /\ UNCHANGED <<exc, cfg, mixer, msg, effects, failures, rebuilds, child, call>>

\* get_audio_devices: for sink in pactl.sink_list()
SinkList ==
  /\ pc = "sink_list"
  /\ build' = [build EXCEPT !.sinks = mixer.sinks]
  /\ pc' = "source_list"
  /\ UNCHANGED <<exc, cfg, mixer, action_map, msg, effects, failures, rebuilds, muteHist,
                 child, call>>

\* get_audio_devices: for source in pactl.source_list()
SourceList ==
  /\ pc = "source_list"
  /\ build' = [build EXCEPT !.sources = mixer.sources]
  /\ pc' = "sink_input_list"
  /\ UNCHANGED <<exc, cfg, mixer, action_map, msg, effects, failures, rebuilds, muteHist,
                 child, call>>

\* the inventory as this build has enumerated it: the lists returned earlier
\* and the list pactl.sink_input_list() returns now
Enumerated ==
  [sinks |-> build.sinks, sources |-> build.sources,
   sink_inputs |-> mixer.sink_inputs, next |-> mixer.next]

\* get_sink_inputs: for sink_inputs_item in pactl.sink_input_list(), then the
\* keymap loop and the return of parse_config into action_map
SinkInputList ==
  /\ pc = "sink_input_list"
  /\ LET r == parse_config(build.cfg, Enumerated)
     IN IF r.tag = "raise"
        THEN /\ pc' = "crashed"
             /\ exc' = r.exc
             /\ UNCHANGED <<action_map, muteHist>>
        ELSE /\ pc' = "read"
             /\ action_map' = r
             /\ muteHist' = MuteHistOf(r)
             /\ UNCHANGED exc
  /\ build' = NoBuild
  /\ UNCHANGED <<cfg, mixer, msg, effects, failures, rebuilds, child, call>>

\* for msg in inport
ReadMsg(m) ==
  /\ pc = "read"
  /\ msg' = m
  /\ pc' = "lookup"
  /\ UNCHANGED <<exc, cfg, mixer, action_map, effects, failures, rebuilds, muteHist,
                 child, call, build>>

\* the command started by subprocess.call(filled_command, shell=True)
Spawns(o) == \E i \in DOMAIN o.effects : o.effects[i].op = "shell"

\* subprocess.Popen without the wait: the caller goes on at once
AfterSpawn_NoWait == "read"

\* subprocess.call: the caller is held until the command has ended
AfterSpawn == "wait"

\* else: logging.debug('Got other message ...')
OnOtherMessage ==
  /\ pc' = "read"
  /\ UNCHANGED <<exc, mixer, action_map, effects, failures, muteHist, child>>

\* an unmapped control taken for a failed invocation
OnUnmapped_Rebuild ==
  /\ pc' = "rebuild"
  /\ UNCHANGED <<exc, mixer, action_map, effects, failures, muteHist, child>>

\* if msg.control in action_map.keys() is false: nothing is done
OnUnmapped ==
  /\ pc' = "read"
  /\ UNCHANGED <<exc, mixer, action_map, effects, failures, muteHist, child>>

\* the body of the loop up to the except clause
Dispatch(fault) ==
  /\ pc = "lookup"
  /\ IF msg.type # "control_change"
     THEN OnOtherMessage
     ELSE IF action_map.tag # "dict"
     THEN /\ pc' = "crashed"
          /\ exc' = "AttributeError"
          /\ UNCHANGED <<mixer, action_map, effects, failures, muteHist, child>>
     ELSE IF msg.control \notin DOMAIN action_map.d
     THEN OnUnmapped
     ELSE LET a == action_map.d[msg.control]
              o == Invoke(a, msg.control, msg.value, mixer, msg, fault)
          IN /\ action_map' = Dict([action_map.d EXCEPT ![msg.control] = o.a])
             /\ mixer' = o.mixer
             /\ effects' = o.effects
             /\ muteHist' = IF a.kind = "mute" /\ msg.value = 127
                            THEN [muteHist EXCEPT ![msg.control].odd = ~@]
                            ELSE muteHist
             /\ IF o.ok
                THEN /\ pc' = IF Spawns(o) THEN AfterSpawn ELSE "read"
                     /\ child' = IF Spawns(o) THEN "running" ELSE child
                     /\ UNCHANGED failures
                ELSE /\ pc' = "rebuild"
                     /\ failures' = Inc(failures)
                     /\ UNCHANGED child
             /\ UNCHANGED exc
  /\ UNCHANGED <<cfg, msg, rebuilds, call, build>>

\* where a finished invocation returns to: the loop, or the direct caller
ReturnTo == IF call = NoCall THEN "read" ELSE "returned"

\* the command ends with an exit status; subprocess.call returns it and
\* the caller drops it
ChildExit(status) ==
  /\ child = "running"
  /\ child' = "idle"
  /\ pc' = IF pc = "wait" THEN ReturnTo ELSE pc
  /\ UNCHANGED <<exc, cfg, mixer, action_map, msg, effects, failures, rebuilds, muteHist, call, build>>

\* except Exception: action_map = parse_config(...)
Rebuild ==
  /\ pc = "rebuild"
  /\ rebuilds' = Inc(rebuilds)
  /\ ReadFile
  /\ UNCHANGED <<exc, cfg, mixer, msg, effects, failures, child, call>>

(***************************************************************************)
(* The environment: streams and devices come and go, the file may vanish.  *)
(***************************************************************************)
Running == pc # "crashed"

Remove(objs, i) == SubSeq(objs, 1, i - 1) \o SubSeq(objs, i + 1, Len(objs))

EnvUnchanged ==
  UNCHANGED <<pc, exc, cfg, action_map, msg, effects, failures, rebuilds, muteHist, child, call, build>>

StreamOpen(n) ==
  /\ Running
  /\ mixer.next <= MaxIndex
  /\ mixer' = [mixer EXCEPT !.sink_inputs = Append(@, Stream(mixer.next, n)),
                            !.next = @ + 1]
  /\ EnvUnchanged

StreamClose(i) ==
  /\ Running
  /\ i \in DOMAIN mixer.sink_inputs
  /\ mixer' = [mixer EXCEPT !.sink_inputs = Remove(@, i)]
  /\ EnvUnchanged

SinkRemove ==
  /\ Running
  /\ mixer.sinks # <<>>
  /\ mixer' = [mixer EXCEPT !.sinks = <<>>]
  /\ EnvUnchanged

SinkAdd ==
  /\ Running
  /\ mixer.sinks = <<>>
  /\ mixer.next <= MaxIndex
  /\ mixer' = [mixer EXCEPT !.sinks = <<Sink(mixer.next, 0)>>, !.next = @ + 1]
  /\ EnvUnchanged

ConfigLost ==
  /\ Running
  /\ cfg.readable
  /\ cfg' = [cfg EXCEPT !.readable = FALSE]
  /\ UNCHANGED <<pc, exc, mixer, action_map, msg, effects, failures, rebuilds, muteHist,
                 child, call, build>>

Next ==
  \/ Startup
  \/ SinkList
  \/ SourceList
  \/ SinkInputList
  \/ \E m \in Msgs(cfg) : ReadMsg(m)
  \/ \E fault \in BOOLEAN : Dispatch(fault)
  \/ Rebuild
  \/ \E status \in ExitStatuses : ChildExit(status)
  \/ \E n \in StreamNames : StreamOpen(n)
  \/ \E i \in 1..MaxIndex : StreamClose(i)
  \/ SinkRemove
  \/ SinkAdd
  \/ ConfigLost

Spec == Init /\ [][Next]_vars

(***************************************************************************)
(* The config compiler on its own: one build, from every small keymap,     *)
(* every choice of the other sections and every starting inventory.        *)
(***************************************************************************)
Restrict(f, S) == [x \in S |-> f[x]]

BuildConfigs ==
  {Config(r, k) : r \in BOOLEAN, k \in Keymaps(MaxKeymap)}
  \cup {[readable |-> TRUE, sections |-> Restrict(AliasSections, S)] :
          S \in SUBSET DOMAIN AliasSections}

InitBuild ==
  /\ InitCommon
  /\ call = NoCall
  /\ cfg \in BuildConfigs
  /\ mixer \in Inventories

NextBuild ==
  \/ Startup
  \/ SinkList
  \/ SourceList
  \/ SinkInputList

SpecBuild == InitBuild /\ [][NextBuild]_vars

(***************************************************************************)
(* The stream resolver in a build: several configured suffixes, several    *)
(* live streams.                                                           *)
(***************************************************************************)
MaxStreams == 2

YtOption == <<<<"yt">>, YouTube>>

TubeOption == <<<<"tube">>, <<"YouTube">>>>

VlcOption == <<<<"vlc">>, <<"VLC">>>>

\* [streams] sections: options in the order of the file
StreamSections ==
  { <<>>, <<YtOption>>, <<TubeOption>>, <<VlcOption>>,
    <<YtOption, TubeOption>>, <<TubeOption, YtOption>>,
    <<YtOption, VlcOption>>, <<YtOption, TubeOption, VlcOption>> }

ResolveKeymap ==
  << <<"PARAM3_SLIDER", <<"volumestr", "/", "yt">>>>,
     <<"PARAM4_SLIDER", <<"volumestr", "/", "tube">>>>,
     <<"PARAM5_SLIDER", <<"volumestr", "/", "vlc">>>> >>

ResolveConfigs ==
  {[readable |-> TRUE, sections |-> ("streams" :> sec) @@ ("keymap" :> ResolveKeymap)] :
     sec \in StreamSections}

ResolveNames == {<<"Song">> \o YouTube, <<"Movie", "VLC">>, <<"Chat">>}

\* pactl.sink_input_list(): up to MaxStreams streams, indexes 2, 3, ...
ResolveInventories ==
  {[sinks |-> <<>>, sources |-> <<>>,
    sink_inputs |-> [i \in 1..n |-> Stream(i + 1, names[i])], next |-> n + 2] :
     <<n, names>> \in {p \in (0..MaxStreams) \X UNION {[1..l -> ResolveNames] : l \in 0..MaxStreams} :
                        p[1] = Len(p[2])}}

InitResolve ==
  /\ InitCommon
  /\ call = NoCall
  /\ cfg \in ResolveConfigs
  /\ mixer \in ResolveInventories

SpecResolve == InitResolve /\ [][NextBuild]_vars

(***************************************************************************)
(* One action or set_led invoked directly by a caller that holds the       *)
(* object: call gives the arguments, the table holds the object under the  *)
(* key of the call, and msg is the message the caller is handling: the     *)
(* action is invoked with key = msg.control and value = msg.value.         *)
(*   pc = "call"      before the invocation                                *)
(*   pc = "returned"  the invocation has returned                          *)
(*   pc = "raised"    the invocation has raised                            *)
(***************************************************************************)
\* controls of the direct calls: LED-capable ones and a slider
CallKeys == {nano_keys["PLAY"], nano_keys["NEXT"], nano_keys["PARAM1_SLIDER"]}

\* values handed to set_led: a below-zero one, the levels of a mute, the ends
LedValues == {-1, 0, 1, 126, 127}

InvokeActions ==
  {nano_action_evdev(ecodes[<<"KEY_A">>])}
  \cup {nano_action_mute(Sink(0, m)) : m \in {0, 1}}
  \cup {nano_action_volume(Sink(0, 0), l) : l \in {50, 100}}
  \cup {nano_action_volume_stream(Stream(2, <<"Song">> \o YouTube), l) : l \in {50, 100}}
  \cup {nano_action_exec(t) : t \in {EchoTemplate, BraceTemplate, FooTemplate}}

\* the inventories a held object is invoked against: it is there or it is gone
InvokeInventories(a) ==
  IF a.kind \in {"mute", "volume"}
  THEN {[sinks |-> sk, sources |-> <<>>, sink_inputs |-> <<>>, next |-> 3] :
          sk \in {<<>>, <<a.audio_device>>}}
  ELSE IF a.kind = "volume_stream"
  THEN {[sinks |-> <<>>, sources |-> <<>>, sink_inputs |-> si, next |-> 3] :
          si \in {<<>>, <<a.stream>>}}
  ELSE {[sinks |-> <<>>, sources |-> <<>>, sink_inputs |-> <<>>, next |-> 3]}

\* the module-level msg when an action is invoked with key k and value v:
\* action(key=msg.control, value=msg.value)
InvokeMsgs(k, v) == {[type |-> "control_change", control |-> k, value |-> v]}

InitInvoke ==
  /\ pc = "call"
  /\ exc = ""
  /\ effects = <<>>
  /\ failures = 0
  /\ rebuilds = 0
  /\ muteHist = EmptyMap
  /\ child = "idle"
  /\ build = NoBuild
  /\ cfg = ConfigNoKeymap(TRUE)
  /\ \/ /\ call \in {[fn |-> "set_led", key |-> c, value |-> v] : c \in 0..127, v \in LedValues}
        /\ action_map = Dict(EmptyMap)
        /\ mixer \in InvokeInventories(nano_action_exec(EchoTemplate))
        /\ msg = NoMsg
     \/ \E a \in InvokeActions :
          /\ call \in {[fn |-> "action", key |-> k, value |-> v] : k \in CallKeys, v \in 0..127}
          /\ action_map = Dict(call.key :> a)
          /\ mixer \in InvokeInventories(a)
          /\ msg \in InvokeMsgs(call.key, call.value)

\* led_handler.set_led(key, value), or action_map[key].action(key, value)
Call(fault) ==
  /\ pc = "call"
  /\ IF call.fn = "set_led"
     THEN /\ effects' = set_led(call.key, call.value)
          /\ pc' = "returned"
          /\ UNCHANGED <<action_map, mixer, child>>
     ELSE LET o == Invoke(action_map.d[call.key], call.key, call.value, mixer, msg, fault)
          IN /\ action_map' = Dict(call.key :> o.a)
             /\ mixer' = o.mixer
             /\ effects' = o.effects
             /\ pc' = IF ~o.ok THEN "raised" ELSE IF Spawns(o) THEN AfterSpawn ELSE ReturnTo
             /\ child' = IF o.ok /\ Spawns(o) THEN "running" ELSE child
  /\ UNCHANGED <<exc, cfg, msg, failures, rebuilds, muteHist, call, build>>

NextInvoke ==
  \/ \E fault \in BOOLEAN : Call(fault)
  \/ \E status \in ExitStatuses : ChildExit(status)

SpecInvoke == InitInvoke /\ [][NextInvoke]_vars

(***************************************************************************)
(* The daemon with one volumestr mapping while its stream closes and       *)
(* reopens.  The program keeps running (weak fairness of its steps) and    *)
(* the user keeps moving the mapped slider (strong fairness: the read is   *)
(* enabled again and again, not continuously).                             *)
(***************************************************************************)
SliderId == nano_keys["PARAM3_SLIDER"]

SliderMsg == [type |-> "control_change", control |-> SliderId, value |-> 127]

InitLive ==
  /\ InitCommon
  /\ call = NoCall
  /\ cfg = Config(TRUE, StreamKeymap)
  /\ mixer \in {inv \in Inventories : inv.sink_inputs # <<>>}

NextLive ==
  \/ Startup
  \/ SinkList
  \/ SourceList
  \/ SinkInputList
  \/ \E m \in Msgs(cfg) : ReadMsg(m)
  \/ \E fault \in BOOLEAN : Dispatch(fault)
  \/ Rebuild
  \/ \E n \in StreamNames : StreamOpen(n)
  \/ \E i \in 1..MaxIndex : StreamClose(i)

SpecLive ==
  /\ InitLive
  /\ [][NextLive]_vars
  /\ WF_vars(Startup)
  /\ WF_vars(SinkList)
  /\ WF_vars(SourceList)
  /\ WF_vars(SinkInputList)
  /\ WF_vars(\E fault \in BOOLEAN : Dispatch(fault))
  /\ WF_vars(Rebuild)
  /\ SF_vars(ReadMsg(SliderMsg))

(***************************************************************************)
(* Properties.                                                             *)
(***************************************************************************)
\* the registries of one build from the current file and inventory
AudioDevices == get_audio_devices(mixer, AliasMap(cfg, "audioinputs"), AliasMap(cfg, "audiooutputs"))

SinkInputDevices == get_sink_inputs(mixer, AliasMap(cfg, "streams"))

\* what the loop body does for one option taken on its own
EntryAlone(e) == BuildEntry(e[1], e[2], AudioDevices, SinkInputDevices)

ValidEntry(e) == EntryAlone(e).r = "set"

Entries == {Keymap(cfg)[i] : i \in DOMAIN Keymap(cfg)}

\* the table holds exactly the valid options of the keymap
HoldsValidEntries ==
  /\ pc = "read"
  /\ action_map.tag = "dict"
  /\ DOMAIN action_map.d = {EntryAlone(e).k : e \in {x \in Entries : ValidEntry(x)}}
  /\ \A e \in Entries : ValidEntry(e) => action_map.d[EntryAlone(e).k] = EntryAlone(e).a
  /\ Cardinality(DOMAIN action_map.d) = Cardinality({x \in Entries : ValidEntry(x)})

\* the option names a control and a mute, volume or volumestr action whose
\* alias is in neither registry
Unresolved(e) ==
  LET actions == Split1(e[2])
  IN /\ e[1] \in DOMAIN nano_keys
     /\ Len(actions) = 2
     /\ \/ actions[1] = <<"mute">> /\ actions[2] \notin DOMAIN AudioDevices
        \/ actions[1] = <<"volume">> /\ Split1(actions[2])[1] \notin DOMAIN AudioDevices
        \/ actions[1] = <<"volumestr">> /\ Split1(actions[2])[1] \notin DOMAIN SinkInputDevices

\* the option's name is not the name of a control
UnknownName(e) == e[1] \notin DOMAIN nano_keys

\* C1: when exactly one invocation has failed, exactly one rebuild follows it
\* before the next event is read and the later events are dispatched against
\* the rebuilt table; while no invocation has failed there is no rebuild.
C1_OneFailureOneRebuild ==
  /\ failures = 0 => rebuilds = 0
  /\ failures = 1 =>
       /\ pc # "crashed"
       /\ pc \in {"read", "lookup"} => rebuilds = 1 /\ action_map.tag = "dict"

\* C2: a failed invocation never ends the loop: once an invocation has failed
\* the program is never left by an exception.
C2_LoopSurvivesFailure == failures > 0 => pc # "crashed"

IsOpen(i) == i \in Indexes(mixer.sink_inputs)

SetOn(i) ==
  \E j \in DOMAIN effects :
     /\ effects[j].op = "volume"
     /\ effects[j].type = "sink_input"
     /\ effects[j].index = i

\* the stream every starting inventory of the churn specification holds
FirstStream == Stream(2, <<"Song">> \o YouTube)

\* C3: when the first stream, bound to the slider (its volume has been set
\* through it), has closed and a stream with a new index and the configured
\* suffix is the open one from some time on, the slider's events eventually
\* set the volume of that new stream.
C3_StreamChurnRecovers ==
  \A i \in 0..MaxIndex :
     ( /\ i # FirstStream.index
       /\ <>SetOn(FirstStream.index)
       /\ <>[](Indexes(mixer.sink_inputs) = {i}) )
     => <>SetOn(i)

\* parse_config has been called and is over
BuildOver == pc \notin {"start", "sink_list", "source_list", "sink_input_list"}

\* C4: a build whose keymap has options with an unresolved device or stream
\* alias, all its other options being valid, completes with a table of
\* exactly those other options.
C4_PartialSuccess ==
  ( /\ BuildOver
    /\ ReadConfig(cfg) = "ok"
    /\ \E e \in Entries : Unresolved(e)
    /\ \A e \in Entries : Unresolved(e) \/ ValidEntry(e) )
  => HoldsValidEntries

\* C5: a build whose keymap has options with an unknown control name, all
\* its other options being valid, completes with a table of exactly those
\* other options, of size the number of valid options.
C5_UnknownNamesSkipped ==
  ( /\ BuildOver
    /\ ReadConfig(cfg) = "ok"
    /\ \E e \in Entries : UnknownName(e)
    /\ \A e \in Entries : UnknownName(e) \/ ValidEntry(e) )
  => HoldsValidEntries

\* C6: when the configuration is unreadable or has no keymap section at the
\* initial load, the program stops at startup and never enters the loop.
C6_FatalConfigStopsAtStartup ==
  [][(pc = "start" /\ ReadConfig(cfg) # "ok") => pc' \in {"start", "crashed"}]_vars

\* C7: a build from a configuration without a keymap section yields None
\* and no table, whatever the other sections hold.
C7_NoKeymapNoTable ==
  (pc # "start" /\ ~HasSection(cfg, "keymap")) => action_map = None

C7_Witness ==
  /\ pc = "read"
  /\ cfg.readable
  /\ DOMAIN cfg.sections = DOMAIN AliasSections
  /\ mixer.sinks # <<>>
  /\ mixer.sink_inputs # <<>>
  /\ action_map = None

\* C8: at every lookup of the dispatch loop the table is the complete result
\* of a finished build, never absent.
C8_NoTornTable ==
  (pc = "lookup" /\ msg.type = "control_change") => action_map.tag = "dict"

\* C9: every key of a built table is the id, in 0..127, of a control of
\* the enumeration.
C9_KeysAreControls ==
  action_map.tag = "dict" => DOMAIN action_map.d \subseteq (ControlIds \cap (0..127))

C9_Witness ==
  /\ pc = "read"
  /\ action_map.tag = "dict"
  /\ DOMAIN action_map.d # {}
  /\ \E e \in Entries : UnknownName(e) /\ e[1] # "led_support"

\* C10: the mute state held by a ToggleMute action is the state it was built
\* with after an even number of full presses and the opposite one after an
\* odd number, whatever partial presses came in between.
C10_ToggleParity ==
  action_map.tag = "dict" =>
    \A k \in DOMAIN muteHist :
       /\ k \in DOMAIN action_map.d
       /\ action_map.d[k].kind = "mute"
       /\ action_map.d[k].muted =
            IF muteHist[k].odd THEN 1 - muteHist[k].orig ELSE muteHist[k].orig

\* a partial press has just been handled after an odd number of full presses
C10_Witness ==
  /\ pc = "read"
  /\ msg.type = "control_change"
  /\ msg.value = 126
  /\ msg.control \in DOMAIN muteHist
  /\ muteHist[msg.control].odd
  /\ muteHist[msg.control].orig = 1
  /\ action_map.d[msg.control].muted = 0

LedCapable(c) == \E i \in DOMAIN led_support : led_support[i] = c

\* C11: set_led(c, v) for every control c in 0..127: when c is not
\* LED-capable nothing is sent and nothing is raised; when it is, exactly one
\* message is sent, for c, with level 127 iff v > 0 and level 0 otherwise.
C11_SetLed ==
  call.fn = "set_led" /\ pc # "call" =>
    /\ pc = "returned"
    /\ IF LedCapable(call.key)
       THEN /\ Len(effects) = 1
            /\ effects[1].op = "led"
            /\ effects[1].control = call.key
            /\ (call.value > 0 => effects[1].value = 127)
            /\ (call.value <= 0 => effects[1].value = 0)
       ELSE effects = <<>>

\* set_led has been called with a low positive value for an LED-capable control
C11_Witness ==
  /\ call.fn = "set_led"
  /\ pc = "returned"
  /\ call.key = nano_keys["PLAY"]
  /\ call.value = 1
  /\ effects # <<>>

\* the action object of a direct call
Callee == action_map.d[call.key]

\* C12: every invocation of a device volume action with value in 0..127
\* writes to the device the volume (value / 127) * (max_level / 100), value
\* being the argument of that invocation: 1 for value 127 with max_level
\* 100, 0 for value 0, 1/2 for value 127 with max_level 50.
C12_VolumeFromArgument ==
  /\ call.fn = "action"
  /\ pc # "call"
  /\ Callee.kind = "volume"
  /\ Live(mixer, Callee.audio_device)
  => /\ pc = "returned"
     /\ Len(effects) = 1
     /\ effects[1].op = "volume"
     /\ effects[1].type = Callee.audio_device.type
     /\ effects[1].index = Callee.audio_device.index
     /\ effects[1].num * (127 * 100) = call.value * Callee.max_level * effects[1].den
     /\ (call.value = 127 /\ Callee.max_level = 100 => effects[1].num = effects[1].den)
     /\ (call.value = 0 => effects[1].num = 0)
     /\ (call.value = 127 /\ Callee.max_level = 50 => 2 * effects[1].num = effects[1].den)

\* a device volume action with max_level 50 has been invoked with value 127
\* and has written the volume 1/2
C12_Witness ==
  /\ call.fn = "action"
  /\ pc = "returned"
  /\ Callee.kind = "volume"
  /\ Callee.max_level = 50
  /\ call.value = 127
  /\ effects # <<>>
  /\ 2 * effects[1].num = effects[1].den

\* C13: a descriptor volumestr/<alias>/<maxLevel> whose alias resolves to a
\* live stream produces a stream volume entry for its control, holding that
\* stream and that maxLevel.
C13_StreamMaxLevel ==
  pc = "read" /\ action_map.tag = "dict" =>
    \A e \in Entries :
      LET actions == Split1(e[2])
          volume_details == Split1(actions[2])
      IN /\ e[1] \in DOMAIN nano_keys
         /\ Len(actions) = 2
         /\ actions[1] = <<"volumestr">>
         /\ Len(volume_details) = 2
         /\ volume_details[1] \in DOMAIN SinkInputDevices
         /\ ParseFloat(volume_details[2]).ok
         => /\ nano_keys[e[1]] \in DOMAIN action_map.d
            /\ action_map.d[nano_keys[e[1]]] =
                 nano_action_volume_stream(SinkInputDevices[volume_details[1]],
                                           ParseFloat(volume_details[2]).v)

\* the options of [streams] whose suffix the name of the stream ends with
MatchingOptions(s) ==
  {i \in DOMAIN Options(cfg, "streams") : EndsWith(s.name, Options(cfg, "streams")[i][2])}

\* the alias of the first configured suffix the name of the stream ends with
FirstAlias(s) ==
  Options(cfg, "streams")[CHOOSE i \in MatchingOptions(s) :
                            \A j \in MatchingOptions(s) : i <= j][1]

\* C14: after a build every stream bound to an alias matches a configured
\* suffix and is bound to the alias of the first configured suffix it
\* matches, and no stream is bound to two aliases.
C14_FirstMatchWins ==
  pc = "read" =>
    /\ \A alias \in DOMAIN SinkInputDevices :
         /\ MatchingOptions(SinkInputDevices[alias]) # {}
         /\ alias = FirstAlias(SinkInputDevices[alias])
    /\ \A a1, a2 \in DOMAIN SinkInputDevices :
         a1 # a2 => SinkInputDevices[a1] # SinkInputDevices[a2]

\* C15 as claimed: the step that starts the command of an Exec action is
\* also the return of the invocation (the loop is back at reading events
\* while the command runs), and the end of the command, whatever its exit
\* status, counts no failure.
C15_FireAndForget ==
  [][/\ (child # "running" /\ child' = "running" => pc' = "read")
     /\ (child = "running" /\ child' # "running" => failures' = failures)]_vars

\* C15 amended: an Exec invocation waits for the command it started; while
\* the command runs the loop stays in the invocation and reads no event, and
\* when the command ends, whatever its exit status, the invocation returns
\* to the loop with no failure counted and no rebuild.
C15_ExecWaits ==
  [][/\ (child # "running" /\ child' = "running" => pc' = "wait")
     /\ (child = "running" =>
           /\ pc = "wait"
           /\ msg' = msg
           /\ action_map' = action_map
           /\ failures' = failures
           /\ rebuilds' = rebuilds
           /\ pc' # pc => child' = "idle" /\ pc' = "read")]_vars

\* the command of an Exec action has run to its end and the loop reads again
C15_Witness ==
  /\ call = NoCall
  /\ pc = "read"
  /\ child = "idle"
  /\ effects # <<>>
  /\ effects[1].op = "shell"

\* C16: for every value in 0..127 the key is written pressed (1) iff
\* value >= 126; each invocation writes the key event, then updates the LED
\* with the raw value (on iff value > 0, for an LED-capable control), then
\* syncs.
C16_EmitKey ==
  call.fn = "action" /\ pc # "call" /\ Callee.kind = "evdev" /\ pc # "raised" =>
    LET key == [op |-> "key", code |-> Callee.evdev_action,
                state |-> IF call.value >= 126 THEN 1 ELSE 0]
        led == [op |-> "led", control |-> call.key,
                value |-> IF call.value > 0 THEN 127 ELSE 0]
        syn == [op |-> "syn"]
    IN /\ pc = "returned"
       /\ effects = IF LedCapable(call.key) THEN <<key, led, syn>> ELSE <<key, syn>>

\* a key action has been invoked with value 126 for an LED-capable control
C16_Witness ==
  /\ call.fn = "action"
  /\ pc = "returned"
  /\ Callee.kind = "evdev"
  /\ call.key = nano_keys["PLAY"]
  /\ call.value = 126
  /\ Len(effects) = 3

\* the template with the two placeholders replaced and nothing else changed
Substituted(template, key, value) ==
  [i \in DOMAIN template |->
     IF template[i] = "{NK_KEY_ID}" THEN ToString(key)
     ELSE IF template[i] = "{NK_KEY_VALUE}" THEN ToString(value)
     ELSE template[i]]

\* an Exec action has been invoked and has not raised
ExecDone ==
  /\ call.fn = "action"
  /\ pc \in {"wait", "returned"}
  /\ Callee.kind = "exec"

\* C17 as claimed: the command handed to the shell is the template with
\* every {NK_KEY_ID} and {NK_KEY_VALUE} replaced and nothing else changed.
C17_OnlyPlaceholders ==
  call.fn = "action" /\ pc # "call" /\ Callee.kind = "exec" =>
    /\ ExecDone
    /\ effects = <<[op |-> "shell",
                    command |-> Substituted(Callee.command, call.key, call.value)]>>

\* the only braces of the template are those of the two placeholders
PlainTemplate(template) ==
  \A i \in DOMAIN template : template[i] \notin {"{{", "}}"} \cup UnknownFields

\* C17 amended: for a template whose only braces are those of the two
\* placeholders the command is the template with the placeholders replaced
\* and nothing else changed; a doubled brace comes out as a single one; a
\* template with any other replacement field makes the invocation fail and
\* no command is run.
C17_FormatRules ==
  call.fn = "action" /\ pc # "call" /\ Callee.kind = "exec" =>
    IF \E i \in DOMAIN Callee.command : Callee.command[i] \in UnknownFields
    THEN pc = "raised" /\ effects = <<>>
    ELSE /\ ExecDone
         /\ Len(effects) = 1
         /\ effects[1].op = "shell"
         /\ PlainTemplate(Callee.command) =>
               effects[1].command = Substituted(Callee.command, call.key, call.value)
         /\ Callee.command = BraceTemplate =>
               effects[1].command = <<"echo ", "{", ToString(call.key), "}">>

\* "echo {NK_KEY_ID}-{NK_KEY_VALUE}" with control 44 and value 100 gave
\* "echo 44-100"
C17_Witness ==
  /\ ExecDone
  /\ Callee.command = EchoTemplate
  /\ call.key = 44
  /\ call.value = 100
  /\ effects = <<[op |-> "shell", command |-> <<"echo ", "44", "-", "100">>]>>

\* the step is the body of the loop run for the message read
DispatchStep == pc = "lookup" /\ pc' # "lookup"

\* the object of the inventory that a held handle refers to
DeviceAt(pactl, obj) ==
  CHOOSE d \in {ListOf(pactl, obj.type)[i] : i \in DOMAIN ListOf(pactl, obj.type)} :
    d.index = obj.index

\* C18: after a full press (value 127) of a mute action whose device is in
\* the mixer, whether the mixer write succeeds or fails, the LED level sent
\* for the control is on iff the device is muted in the mixer, and the
\* boolean held by the action equals that mute state.
C18_LedMatchesMixer ==
  [][/\ DispatchStep
     /\ msg.type = "control_change"
     /\ msg.value = 127
     /\ action_map.tag = "dict"
     /\ msg.control \in DOMAIN action_map.d
     /\ action_map.d[msg.control].kind = "mute"
     /\ Live(mixer, action_map.d[msg.control].audio_device)
     => LET now == DeviceAt(mixer', action_map.d[msg.control].audio_device)
        IN /\ \E i \in DOMAIN effects' :
                /\ effects'[i].op = "led"
                /\ effects'[i].control = msg.control
                /\ effects'[i].value = (IF now.mute = 1 THEN 127 ELSE 0)
           /\ action_map'.d[msg.control].muted = now.mute]_vars

\* C19: a control-change event whose control has no entry in the table, and
\* a message that is not a control change, invoke no action, send no effect,
\* count no failure, trigger no rebuild and leave the table, the mixer and
\* the held mute states as they were; the loop goes back to reading.
C19_IgnoredMessages ==
  [][/\ DispatchStep
     /\ \/ msg.type # "control_change"
        \/ action_map.tag = "dict" /\ msg.control \notin DOMAIN action_map.d
     => /\ pc' = "read"
        /\ UNCHANGED <<action_map, effects, mixer, failures, rebuilds, child, muteHist>>]_vars

\* an event for an unmapped control has been ignored after an earlier
\* invocation had its effects
C19_Witness ==
  /\ pc = "read"
  /\ msg.type = "control_change"
  /\ action_map.tag = "dict"
  /\ msg.control \notin DOMAIN action_map.d
  /\ effects # <<>>

\* the handle is an object of the inventory as it is now
InInventory(pactl, obj) ==
  \E i \in DOMAIN ListOf(pactl, obj.type) : ListOf(pactl, obj.type)[i] = obj

\* every handle of the table is an object of the inventory, and every mute
\* action holds the mute state of its device in the inventory
FreshHandles(table, pactl) ==
  \A k \in DOMAIN table :
    /\ table[k].kind \in {"mute", "volume"} => InInventory(pactl, table[k].audio_device)
    /\ table[k].kind = "mute" => table[k].muted = table[k].audio_device.mute
    /\ table[k].kind = "volume_stream" => InInventory(pactl, table[k].stream)

\* C20: every build and rebuild enumerates the mixer itself (each of its
\* three requests takes the list the mixer has at that moment), and each
\* device and stream handle held by the new table, and each initial mute
\* state, comes from the inventory as enumerated during that build.
C20_NoCaching ==
  [][/\ (pc = "sink_list" /\ pc' # pc => build'.sinks = mixer.sinks)
     /\ (pc = "source_list" /\ pc' # pc =>
           build'.sources = mixer.sources /\ build'.sinks = build.sinks)
     /\ (pc = "sink_input_list" /\ pc' = "read" /\ action_map'.tag = "dict" =>
           FreshHandles(action_map'.d, Enumerated))]_vars

\* a rebuild has given the table the handle of a stream opened after the
\* first build
C20_Witness ==
  /\ pc = "read"
  /\ rebuilds > 0
  /\ action_map.tag = "dict"
  /\ \E k \in DOMAIN action_map.d :
       /\ action_map.d[k].kind = "volume_stream"
       /\ action_map.d[k].stream.index # FirstStream.index
       /\ InInventory(mixer, action_map.d[k].stream)

====
